---- MODULE Spec2Model ----
(***************************************************************************)
(* A model of the takkun terminal text editor: the Document and its Rows   *)
(* (src/src/document.rs), the TextArea's reflowed cursor motion            *)
(* (src/src/ui/text_area.rs), the UI component stack                       *)
(* Status(FileChooser(Find(Tabs(TextArea)))) (src/src/ui/*.rs) and the     *)
(* editor loop with the terminal state (src/src/main.rs,                   *)
(* src/src/terminal.rs).                                                   *)
(*                                                                         *)
(* Cursor coordinates and cell indices are 0-based as in the source; TLA+  *)
(* sequences are 1-based, so rows[y] of the source is d.rows[y + 1] here.  *)
(* A Rust panic (failed assert, index out of range, arithmetic overflow    *)
(* in a build with overflow checks) is recorded in a "panicked" field and  *)
(* stops the thread.                                                       *)
(***************************************************************************)
EXTENDS Integers, Sequences, FiniteSets, TLC

VARIABLES
    document,   \* the Document under test (Document API / TextArea specifications)
    row,        \* Row handed to Row::split
    max_width,  \* max_width handed to Row::split
    display_lines, \* the result of Row::split, or NotRun
    ui,         \* the component stack Status(FileChooser(Find(Tabs(TextArea))))
    disk,       \* the file system the documents are opened from and saved to
    dirty,      \* what the last Status::update returned
    file,       \* contents of the file handed to open (round trip)
    saved,      \* what save wrote back (round trip), or NotRun
    main        \* the main thread of main.rs and the terminal it drives

vars == <<document, row, max_width, display_lines, ui, disk, dirty, file, saved, main>>

docVars == <<document>>
wrapVars == <<row, max_width, display_lines>>
uiVars == <<ui, disk, dirty>>
fileVars == <<file, saved>>
mainVars == <<main>>

(***************************************************************************)
(* Bounds of the model.                                                    *)
(***************************************************************************)
MaxCells == 4       \* cells in one document (Document API, TextArea)
MaxRows == 3        \* rows in one document
MaxCols == 3        \* widths cols handed to TextArea.up / down: 1..MaxCols
MaxCursor == 6      \* cap on a cursor coordinate that has left the document

None == "None"          \* the value of a variable a specification does not use
NotRun == "NotRun"

\* Option<T>: None is the empty sequence, Some(v) the sequence of v alone
NoneOpt == <<>>
Some(v) == <<v>>
IsSome(o) == o # <<>>
Unwrap(o) == o[1]

Min(a, b) == IF a < b THEN a ELSE b

\* usize::MAX; TLC's integers are 32 bits wide, so the largest of them stands
\* for it: it is only ever compared with row indices.
UsizeMax == 2147483647

\* wrapping usize subtraction a - b
WrappingSub(a, b) == IF a >= b THEN a - b ELSE UsizeMax - (b - a) + 1

(***************************************************************************)
(* Graphemes.  A string is a sequence of grapheme clusters.                *)
(***************************************************************************)
TabGrapheme == "\t"
WideGrapheme == "U+4E16"   \* a CJK grapheme: 3 bytes of UTF-8, 2 columns

\* str::len() of one grapheme: its bytes
ByteLen(g) == IF g = WideGrapheme THEN 3 ELSE 1

\* UnicodeWidthStr::width of one grapheme
UnicodeWidth(g) == IF g = WideGrapheme THEN 2 ELSE 1

DefaultStyle == [foreground |-> 7, background |-> 234, decoration |-> <<>>]

\* the Cell that cells() builds for one grapheme
Cell(g) ==
    [grapheme |-> g,
     width |-> IF g = TabGrapheme THEN 4 ELSE UnicodeWidth(g),
     style |-> DefaultStyle]

\* pub fn cells(line): one Cell per grapheme
Cells(line) == [i \in 1..Len(line) |-> Cell(line[i])]

(***************************************************************************)
(* Row                                                                     *)
(***************************************************************************)
RowNew == <<>>

RowLen(r) == Len(r)

\* Row::insert_str: splice(position..position, cells(s)); position <= len
RowInsertStr(r, position, s) ==
    SubSeq(r, 1, position) \o Cells(s) \o SubSeq(r, position + 1, Len(r))

\* Row::split_at: (cells[0, position), cells[position, len)); position <= len
RowSplitAt(r, position) ==
    <<SubSeq(r, 1, position), SubSeq(r, position + 1, Len(r))>>

RowAppend(r, other) == r \o other

\* Row::remove: drop cell position; position < len
RowRemove(r, position) ==
    SubSeq(r, 1, position) \o SubSeq(r, position + 2, Len(r))

\* Row::as_string: the graphemes of the cells, concatenated
RowAsString(r) == [i \in 1..Len(r) |-> r[i].grapheme]

\* str::len() of a string: the sum of its graphemes' bytes
RECURSIVE StrByteLen(_)
StrByteLen(s) == IF s = <<>> THEN 0 ELSE ByteLen(Head(s)) + StrByteLen(Tail(s))

\* Row::match_indices: the cell indices i in 0..len - k at which the k pattern
\* graphemes equal cells i..i+k-1, ascending
RowMatchIndices(r, pattern) ==
    IF StrByteLen(pattern) > Len(r) THEN <<>>
    ELSE LET k == Len(pattern)
             upper == Len(r) - k          \* the range 0..upper excludes upper
             candidates == [i \in 1..upper |-> i - 1]
         IN SelectSeq(candidates,
                LAMBDA i : \A j \in 0..(k - 1) : r[i + j + 1].grapheme = pattern[j + 1])

(***************************************************************************)
(* Document                                                                *)
(***************************************************************************)
Blank ==
    [rows |-> <<>>, cursor |-> [x |-> 0, y |-> 0], filename |-> NoneOpt,
     panicked |-> FALSE]

\* the thread panics in state d
Panic(d) == [d EXCEPT !.panicked = TRUE]

OnFirstLine(d) == d.cursor.y = 0

\* self.cursor.y == self.rows.len() - 1, the subtraction wrapping
OnLastLine(d) == d.cursor.y = WrappingSub(Len(d.rows), 1)

\* rows.len() - 1 underflows: a panic in a build with overflow checks
OnLastLineOverflows(d) == Len(d.rows) = 0

OnFirstChar(d) == d.cursor.x = 0

\* self.rows[self.cursor.y] is out of range
RowIndexPanics(d) == d.cursor.y >= Len(d.rows)

\* current_line_len() indexes rows[cursor.y] unless there are no rows
CurrentLineLenPanics(d) == Len(d.rows) # 0 /\ RowIndexPanics(d)

CurrentLineLen(d) ==
    IF Len(d.rows) = 0 THEN 0 ELSE RowLen(d.rows[d.cursor.y + 1])

OnLastChar(d) == d.cursor.x = CurrentLineLen(d)

StartOfLine(d) == [d EXCEPT !.cursor.x = 0]

EndOfLine(d) ==
    IF CurrentLineLenPanics(d) THEN Panic(d)
    ELSE [d EXCEPT !.cursor.x = CurrentLineLen(d)]

Insert(d, c) ==
    IF d.panicked THEN d
    ELSE IF ByteLen(c) # 1 THEN Panic(d)            \* assert!(c.len() == 1)
    ELSE LET d1 == IF Len(d.rows) = 0 THEN [d EXCEPT !.rows = <<RowNew>>] ELSE d
         IN IF RowIndexPanics(d1) THEN Panic(d1)
            ELSE IF d1.cursor.x > RowLen(d1.rows[d1.cursor.y + 1]) THEN Panic(d1)
            ELSE [d1 EXCEPT !.rows[d1.cursor.y + 1] = RowInsertStr(@, d1.cursor.x, <<c>>),
                            !.cursor.x = @ + 1]

\* Vec::remove(i) / Vec::insert(i, e) on a sequence, i 0-based and in range
VecRemove(v, i) == SubSeq(v, 1, i) \o SubSeq(v, i + 2, Len(v))
VecInsert(v, i, e) == SubSeq(v, 1, i) \o <<e>> \o SubSeq(v, i + 1, Len(v))

InsertLine(d) ==
    IF d.panicked THEN d
    ELSE IF Len(d.rows) = 0 THEN d
    ELSE IF RowIndexPanics(d) THEN Panic(d)         \* rows.remove(cursor.y)
    ELSE LET r == d.rows[d.cursor.y + 1]
             removed == [d EXCEPT !.rows = VecRemove(@, d.cursor.y)]
         IN IF d.cursor.x > RowLen(r) THEN Panic(removed)   \* split_at(cursor.x)
            ELSE LET parts == RowSplitAt(r, d.cursor.x)
                     with_last == VecInsert(removed.rows, d.cursor.y, parts[2])
                     with_first == VecInsert(with_last, d.cursor.y, parts[1])
                 IN [d EXCEPT !.rows = with_first,
                              !.cursor = [x |-> 0, y |-> d.cursor.y + 1]]

\* Document::delete_prev
DeletePrev(d) ==
    IF d.panicked THEN d
    ELSE IF OnFirstChar(d) /\ ~OnFirstLine(d) THEN
        IF RowIndexPanics(d) THEN Panic(d)          \* rows.remove(cursor.y)
        ELSE LET prev == d.rows[d.cursor.y + 1]
                 d1 == [d EXCEPT !.rows = VecRemove(@, d.cursor.y),
                                 !.cursor.y = @ - 1]
                 d2 == [d1 EXCEPT !.cursor.x = CurrentLineLen(d1)]
             IN [d2 EXCEPT !.rows[d2.cursor.y + 1] = RowAppend(@, prev)]
    ELSE IF ~OnFirstChar(d) THEN
        LET d1 == [d EXCEPT !.cursor.x = @ - 1]
        IN IF RowIndexPanics(d1) THEN Panic(d1)
           ELSE IF d1.cursor.x >= RowLen(d1.rows[d1.cursor.y + 1]) THEN Panic(d1)
           ELSE [d1 EXCEPT !.rows[d1.cursor.y + 1] = RowRemove(@, d1.cursor.x)]
    ELSE d

Right(d) ==
    IF d.panicked THEN d
    ELSE IF Len(d.rows) = 0 THEN d
    ELSE IF RowIndexPanics(d) THEN Panic(d)         \* on_last_char indexes rows[y]
    ELSE IF OnLastChar(d) /\ ~OnLastLine(d) THEN
        [d EXCEPT !.cursor = [x |-> 0, y |-> d.cursor.y + 1]]
    ELSE IF ~OnLastChar(d) THEN [d EXCEPT !.cursor.x = @ + 1]
    ELSE d

Left(d) ==
    IF d.panicked THEN d
    ELSE IF OnFirstChar(d) /\ ~OnFirstLine(d) THEN
        LET d1 == [d EXCEPT !.cursor.y = @ - 1]
        IN IF RowIndexPanics(d1) THEN Panic(d1)     \* rows[cursor.y].len()
           ELSE [d1 EXCEPT !.cursor.x = RowLen(d1.rows[d1.cursor.y + 1])]
    ELSE IF ~OnFirstChar(d) THEN [d EXCEPT !.cursor.x = @ - 1]
    ELSE d

DeleteNext(d) ==
    IF d.panicked THEN d
    ELSE IF Len(d.rows) = 0 THEN d
    ELSE IF OnLastLine(d) /\ OnLastChar(d) THEN d
    ELSE DeletePrev(Right(d))

Tab(d) == Insert(Insert(Insert(Insert(d, " "), " "), " "), " ")

Up(d) ==
    IF d.panicked THEN d
    ELSE IF OnFirstLine(d) THEN StartOfLine(d)
    ELSE LET d1 == [d EXCEPT !.cursor.y = @ - 1]
         IN IF CurrentLineLenPanics(d1) THEN Panic(d1)
            ELSE [d1 EXCEPT !.cursor.x = Min(d.cursor.x, CurrentLineLen(d1))]

\* overflow_checks: the build panics on arithmetic overflow (debug) or wraps
Down(d, overflow_checks) ==
    IF d.panicked THEN d
    ELSE IF OnLastLineOverflows(d) /\ overflow_checks THEN Panic(d)
    ELSE IF OnLastLine(d) THEN EndOfLine(d)
    ELSE LET d1 == [d EXCEPT !.cursor.y = @ + 1]
         IN IF CurrentLineLenPanics(d1) THEN Panic(d1)
            ELSE [d1 EXCEPT !.cursor.x = Min(d.cursor.x, CurrentLineLen(d1))]

\* the matches find_next collects: <<col, row>> pairs, row by row
RECURSIVE MatchesFrom(_, _, _)
MatchesFrom(rs, i, text) ==
    IF i >= Len(rs) THEN <<>>
    ELSE LET ms == RowMatchIndices(rs[i + 1], text)
         IN [n \in 1..Len(ms) |-> <<ms[n], i>>] \o MatchesFrom(rs, i + 1, text)

\* the loop of find_next: the first match after the cursor, else matches[0]
RECURSIVE NextMatch(_, _, _)
NextMatch(matches, cur, default) ==
    IF matches = <<>> THEN default
    ELSE LET m == Head(matches)
         IN IF m[2] = cur.y /\ m[1] > cur.x THEN m
            ELSE IF m[2] > cur.y THEN m
            ELSE NextMatch(Tail(matches), cur, default)

FindNext(d, text) ==
    IF d.panicked THEN d
    ELSE LET matches == MatchesFrom(d.rows, 0, text)
         IN IF Len(matches) > 0
            THEN LET next == NextMatch(matches, d.cursor, matches[1])
                 IN [d EXCEPT !.cursor = [x |-> next[1], y |-> next[2]]]
            ELSE d

(***************************************************************************)
(* Specification SpecDoc: the operations of Document called in any order   *)
(* on a blank document.                                                    *)
(***************************************************************************)
InputChars == {"a", "b"}          \* one-byte graphemes an Input event carries
SearchTexts == {<<"a">>, <<"b">>, <<"a", "b">>}

RECURSIVE SumLen(_)
SumLen(rs) == IF rs = <<>> THEN 0 ELSE Len(Head(rs)) + SumLen(Tail(rs))

TotalCells(d) == SumLen(d.rows)

IdleWrap == row = <<>> /\ max_width = 0 /\ display_lines = NotRun
IdleUi == ui = None /\ disk = None /\ dirty = FALSE
IdleFile == file = <<>> /\ saved = NoneOpt
IdleMain == main = None
IdleDoc == document = Blank

InitDoc ==
    /\ document = Blank
    /\ IdleWrap
    /\ IdleUi
    /\ IdleFile
    /\ IdleMain

RestUnchangedDoc == UNCHANGED <<wrapVars, uiVars, fileVars, mainVars>>

DoInsert ==
    /\ ~document.panicked
    /\ TotalCells(document) < MaxCells
    /\ \E c \in InputChars : document' = Insert(document, c)
    /\ RestUnchangedDoc

DoInsertLine ==
    /\ ~document.panicked
    /\ Len(document.rows) < MaxRows
    /\ document' = InsertLine(document)
    /\ RestUnchangedDoc

DoDeletePrev ==
    /\ ~document.panicked
    /\ document' = DeletePrev(document)
    /\ RestUnchangedDoc

DoDeleteNext ==
    /\ ~document.panicked
    /\ document' = DeleteNext(document)
    /\ RestUnchangedDoc

DoTab ==
    /\ ~document.panicked
    /\ TotalCells(document) + 4 <= MaxCells
    /\ document' = Tab(document)
    /\ RestUnchangedDoc

DoLeft ==
    /\ ~document.panicked
    /\ document' = Left(document)
    /\ RestUnchangedDoc

DoRight ==
    /\ ~document.panicked
    /\ document.cursor.x < MaxCursor
    /\ document' = Right(document)
    /\ RestUnchangedDoc

DoUp ==
    /\ ~document.panicked
    /\ document' = Up(document)
    /\ RestUnchangedDoc

DoDown ==
    /\ ~document.panicked
    /\ document.cursor.y < MaxCursor
    /\ \E overflow_checks \in BOOLEAN : document' = Down(document, overflow_checks)
    /\ RestUnchangedDoc

DoStartOfLine ==
    /\ ~document.panicked
    /\ document' = StartOfLine(document)
    /\ RestUnchangedDoc

DoEndOfLine ==
    /\ ~document.panicked
    /\ document' = EndOfLine(document)
    /\ RestUnchangedDoc

DoFindNext ==
    /\ ~document.panicked
    /\ \E text \in SearchTexts : document' = FindNext(document, text)
    /\ RestUnchangedDoc

NextDoc ==
    \/ DoInsert \/ DoInsertLine \/ DoDeletePrev \/ DoDeleteNext \/ DoTab
    \/ DoLeft \/ DoRight \/ DoUp \/ DoDown \/ DoStartOfLine \/ DoEndOfLine
    \/ DoFindNext

SpecDoc == InitDoc /\ [][NextDoc]_vars

\* the cursor addresses a cell position of the document
CursorValid(d) ==
    /\ d.cursor.y < (IF Len(d.rows) = 0 THEN 1 ELSE Len(d.rows))
    /\ d.cursor.x <= (IF Len(d.rows) = 0 THEN 0 ELSE Len(d.rows[d.cursor.y + 1]))

\* C1: from a blank document, after any sequence of Document operations the
\* cursor satisfies y < max(1, rows.len()) and x <= rows[y].len() (x = y = 0
\* when there are no rows), and no operation fails.
C1_CursorValidNoFailure ==
    /\ ~document.panicked
    /\ CursorValid(document)

\* every single grapheme, of one byte or more
Graphemes == {"a", "b", " ", TabGrapheme, WideGrapheme}

\* C6: in every reachable Document state, the blank document
\* included, and for every single-grapheme c, insert(c) followed by
\* delete_prev() restores the Document exactly (rows and cursor).
C6_InsertDeletePrevRestores ==
    ~document.panicked =>
        \A c \in Graphemes : DeletePrev(Insert(document, c)) = document

\* C7: in every reachable Document state, insert_line() followed by
\* delete_prev() restores the rows and the cursor.
C7_InsertLineDeletePrevRestores ==
    ~document.panicked => DeletePrev(InsertLine(document)) = document

\* the cell indices at which pattern occurs in row r: cells i .. i+k-1 carry
\* the k graphemes of pattern
Occurrences(r, pattern) ==
    {i \in 0..(Len(r) - Len(pattern)) :
        \A j \in 1..Len(pattern) : r[i + j].grapheme = pattern[j]}

\* the indices a sequence holds
Range(seq) == {seq[n] : n \in 1..Len(seq)}

\* C15: Row.match_indices(pattern) returns exactly the cell indices i at which
\* the pattern's graphemes equal those of cells i .. i+k-1, an occurrence that
\* ends at the last cell and a pattern equal to the whole row included.
C15_MatchIndicesExact ==
    ~document.panicked =>
        \A y \in 1..Len(document.rows), pattern \in SearchTexts :
            Range(RowMatchIndices(document.rows[y], pattern))
                = Occurrences(document.rows[y], pattern)

\* the positions <<row, col>> at which text occurs in the rows of d
AllOccurrences(d, text) ==
    {p \in (0..(Len(d.rows) - 1)) \X (0..MaxCells) :
        p[2] \in Occurrences(d.rows[p[1] + 1], text)}

\* p comes before q in row-major order, or is q
RowMajorLeq(p, q) == p[1] < q[1] \/ (p[1] = q[1] /\ p[2] <= q[2])

\* the first position of the non-empty set ps in row-major order
FirstOf(ps) == CHOOSE p \in ps : \A q \in ps : RowMajorLeq(p, q)

\* where the claim puts the cursor after find_next(text)
ClaimedFindNext(d, text) ==
    LET all == AllOccurrences(d, text)
        after == {p \in all : p[1] > d.cursor.y \/ (p[1] = d.cursor.y /\ p[2] > d.cursor.x)}
    IN IF after # {} THEN [x |-> FirstOf(after)[2], y |-> FirstOf(after)[1]]
       ELSE IF all # {} THEN [x |-> FirstOf(all)[2], y |-> FirstOf(all)[1]]
       ELSE d.cursor

\* rows "foo", "barfoo", "fooqux" (f, o, b, r, q, u, x are one-byte graphemes),
\* the cursor on row 2, col 4
FooDocument ==
    [Blank EXCEPT !.rows = <<Cells(<<"f", "o", "o">>),
                             Cells(<<"b", "a", "r", "f", "o", "o">>),
                             Cells(<<"f", "o", "o", "q", "u", "x">>)>>,
                  !.cursor = [x |-> 4, y |-> 2]]

\* C14: find_next(text) moves the cursor to the first occurrence of text, in
\* row-major order, strictly after the cursor, to the first occurrence of the
\* document when there is none after it, and leaves it when there is no
\* occurrence; in "foo", "barfoo", "fooqux" from row 2, col 4, "foo" is found
\* at row 0, col 0.
C14_FindNextFirstAfterCursor ==
    ~document.panicked =>
        /\ \A text \in SearchTexts :
              FindNext(document, text).cursor = ClaimedFindNext(document, text)
        /\ FindNext(FooDocument, <<"f", "o", "o">>).cursor = [x |-> 0, y |-> 0]

(***************************************************************************)
(* Events (terminal.rs, enum Event).  Every event is a record of the same  *)
(* shape: text is the payload of Input and Error, w and h that of Resize.  *)
(***************************************************************************)
Ev(kind) == [kind |-> kind, text |-> "", w |-> 0, h |-> 0]
Input(c) == [kind |-> "Input", text |-> c, w |-> 0, h |-> 0]
ErrorEv(msg) == [kind |-> "Error", text |-> msg, w |-> 0, h |-> 0]
Resize(w, h) == [kind |-> "Resize", text |-> "", w |-> w, h |-> h]

(***************************************************************************)
(* TextArea: the reflowed vertical motions and the event dispatch.         *)
(***************************************************************************)
\* TextArea::up(width)
TextAreaUp(d, width) ==
    IF d.panicked THEN d
    ELSE IF d.cursor.x >= width THEN [d EXCEPT !.cursor.x = @ - width]
    ELSE LET d1 == Up(d)
         IN IF d1.panicked THEN d1
            ELSE IF CurrentLineLenPanics(d1) THEN Panic(d1)
            ELSE IF width = 0 THEN Panic(d1)        \* division by zero
            ELSE [d1 EXCEPT !.cursor.x = @ + (CurrentLineLen(d1) \div width) * width]

\* TextArea::down(width)
TextAreaDown(d, width) ==
    IF d.panicked THEN d
    ELSE IF Len(d.rows) = 0 THEN d
    ELSE IF RowIndexPanics(d) THEN Panic(d)         \* current_line_len()
    ELSE IF d.cursor.x + width < CurrentLineLen(d) THEN [d EXCEPT !.cursor.x = @ + width]
    ELSE IF width = 0 THEN Panic(d)                 \* remainder by zero
    ELSE Down([d EXCEPT !.cursor.x = @ % width], TRUE)

\* TextArea::update(event, width): the Document after the event
TextAreaUpdate(d, e, width) ==
    CASE e.kind = "Input" -> Insert(d, e.text)
      [] e.kind = "Up" -> TextAreaUp(d, width)
      [] e.kind = "Down" -> TextAreaDown(d, width)
      [] e.kind = "Left" -> Left(d)
      [] e.kind = "Right" -> Right(d)
      [] e.kind = "Home" -> StartOfLine(d)
      [] e.kind = "End" -> EndOfLine(d)
      [] e.kind = "Tab" -> Tab(d)
      [] e.kind = "Delete" -> DeleteNext(d)
      [] e.kind = "Backspace" -> DeletePrev(d)
      [] e.kind = "Enter" -> InsertLine(d)
      [] OTHER -> d

(***************************************************************************)
(* Specification SpecTextArea: a TextArea over a blank document receiving  *)
(* the editing events at widths 1..MaxCols.                                *)
(***************************************************************************)
EditKinds ==
    {"Up", "Down", "Left", "Right", "PageUp", "PageDown", "Home", "End", "Tab",
     "Delete", "Backspace", "Enter"}

EditEvents == {Ev(k) : k \in EditKinds} \cup {Input(c) : c \in InputChars}

WithinBounds(d) ==
    /\ TotalCells(d) <= MaxCells
    /\ Len(d.rows) <= MaxRows
    /\ d.cursor.x <= MaxCursor
    /\ d.cursor.y <= MaxCursor

InitTextArea == InitDoc

TextAreaEvent ==
    /\ ~document.panicked
    /\ \E e \in EditEvents, width \in 1..MaxCols :
          /\ document' = TextAreaUpdate(document, e, width)
          /\ WithinBounds(document')
    /\ RestUnchangedDoc

NextTextArea == TextAreaEvent

SpecTextArea == InitTextArea /\ [][NextTextArea]_vars

\* C2: for every cols >= 1, every document with rows and every valid cursor,
\* TextArea.up(cols) and TextArea.down(cols) leave a valid cursor
\* (y < rows.len() and x <= rows[y].len()) and do not fail.
C2_ReflowedMotionKeepsCursorValid ==
    (~document.panicked /\ Len(document.rows) >= 1 /\ CursorValid(document)) =>
        \A cols \in 1..MaxCols :
            LET u == TextAreaUp(document, cols)
                dn == TextAreaDown(document, cols)
            IN /\ ~u.panicked /\ CursorValid(u)
               /\ ~dn.panicked /\ CursorValid(dn)

\* C24: TextArea.up(cols) with the cursor on the first visual line of the
\* first row (y = 0 and x < cols) leaves the cursor on row 0 with x = 0, for
\* every length of row 0, a row 0 that wraps (len >= cols) included.
C24_UpOnFirstVisualLine ==
    (~document.panicked /\ Len(document.rows) >= 1 /\ document.cursor.y = 0) =>
        \A cols \in 1..MaxCols :
            document.cursor.x < cols =>
                LET d == TextAreaUp(document, cols)
                IN ~d.panicked /\ d.cursor = [x |-> 0, y |-> 0]


(***************************************************************************)
(* Row::split, the soft wrap.  A display line is a sequence of pieces:     *)
(* styled(style, text) is a piece with sgr = TRUE (the style reset and the *)
(* style's escape sequences, then text), a grapheme pushed as it is or the *)
(* end string is a piece with sgr = FALSE.  width is the display width of  *)
(* the piece's text.                                                       *)
(***************************************************************************)
\* style::styled(style, text), text of display width w
Styled(style, text, w) == [sgr |-> TRUE, style |-> style, text |-> text, width |-> w]

\* text pushed onto the line while style is in effect
Plain(style, text, w) == [sgr |-> FALSE, style |-> style, text |-> text, width |-> w]

\* the loop of Row::split over cells[i..], then the lines it leaves
RECURSIVE SplitLoop(_, _, _, _, _, _, _, _)
SplitLoop(cs, i, max, end, lines, line, width, style) ==
    IF i > Len(cs) THEN
        Append(lines, IF width < max THEN Append(line, Plain(style, end, 0)) ELSE line)
    ELSE LET cell == cs[i]
             style1 == IF cell.style # style THEN cell.style ELSE style
             line1 == IF cell.style # style
                      THEN Append(line, Styled(cell.style, cell.grapheme, cell.width))
                      ELSE Append(line, Plain(style, cell.grapheme, cell.width))
         IN IF width + cell.width < max
            THEN SplitLoop(cs, i + 1, max, end, lines, line1, width + cell.width, style1)
            ELSE SplitLoop(cs, i + 1, max, end, Append(lines, line1), <<>>, 0, style1)

\* Row::split(max_width, end)
RowSplit(r, max, end) ==
    SplitLoop(r, 1, max, end, <<>>, <<Styled(DefaultStyle, "", 0)>>, 0, DefaultStyle)

\* the display width of a line: the widths of its pieces
RECURSIVE LineWidth(_)
LineWidth(line) == IF line = <<>> THEN 0 ELSE Head(line).width + LineWidth(Tail(line))

\* the number of cells (graphemes) shown on a line
LineCells(line) == Len(SelectSeq(line, LAMBDA p : p.width > 0))

(***************************************************************************)
(* Specification SpecWrap: Row::split applied to a Row of cells of width   *)
(* 1, 2 and 4, or to the row of ten "a", at max_width 1..MaxWrapCols.      *)
(***************************************************************************)
MaxWrapCells == 4
MaxWrapCols == 5

WrapGraphemes == {"a", WideGrapheme, TabGrapheme}
ClearLine == "CLEAR_LINE"

\* all strings of at most n graphemes
RECURSIVE StringsUpTo(_, _)
StringsUpTo(G, n) ==
    IF n = 0 THEN {<<>>}
    ELSE LET shorter == StringsUpTo(G, n - 1)
         IN shorter \cup {Append(s, g) : s \in shorter, g \in G}

TenCells == Cells([i \in 1..10 |-> "a"])

InitWrap ==
    /\ row \in {Cells(s) : s \in StringsUpTo(WrapGraphemes, MaxWrapCells)} \cup {TenCells}
    /\ max_width \in 1..MaxWrapCols
    /\ display_lines = NotRun
    /\ IdleDoc
    /\ IdleUi
    /\ IdleFile
    /\ IdleMain

DoSplit ==
    /\ display_lines = NotRun
    /\ \E end \in {"", ClearLine} : display_lines' = RowSplit(row, max_width, end)
    /\ UNCHANGED <<row, max_width, docVars, uiVars, fileVars, mainVars>>

NextWrap == DoSplit

SpecWrap == InitWrap /\ [][NextWrap]_vars

\* C3: every line of the soft wrap of a Row at cols >= 1 has display width
\* strictly less than cols; ten width-1 cells at cols = 4 give lines of 3, 3, 3
\* and 1 cells.
C3_WrappedLinesNarrowerThanCols ==
    display_lines # NotRun =>
        /\ \A i \in 1..Len(display_lines) : LineWidth(display_lines[i]) < max_width
        /\ (row = TenCells /\ max_width = 4) =>
               [i \in 1..Len(display_lines) |-> LineCells(display_lines[i])] = <<3, 3, 3, 1>>

\* C26: every line the soft wrap of a Row emits, not only the first, begins
\* with the style-reset and the current cell style; the wrap emits at least
\* one line for every Row, the empty Row included, and the last line ends
\* with end_pad when its display width is < max_cols.
C26_EveryLineStartsStyled ==
    display_lines # NotRun =>
        /\ Len(display_lines) >= 1
        /\ \A i \in 1..Len(display_lines) :
              Len(display_lines[i]) >= 1 /\ display_lines[i][1].sgr
        /\ LET last == display_lines[Len(display_lines)]
           IN LineWidth(last) < max_width =>
                  /\ Len(last) >= 1
                  /\ ~last[Len(last)].sgr
                  /\ last[Len(last)].width = 0
                  /\ last[Len(last)].text \in {"", ClearLine}


(***************************************************************************)
(* Files.  A file's contents are a sequence of characters; disk maps a     *)
(* file name to Some(contents), or to None when no such file exists.  An   *)
(* operation's I/O may fail: io = NoFailure, or io = n >= 0 when its n-th  *)
(* system call fails (0: File::open or File::create; k >= 1: the k-th      *)
(* read or write after it).                                                *)
(***************************************************************************)
NoFailure == -1
LF == "\n"
CR == "\r"

\* str::lines(): the lines of contents, split at "\n" and at "\r\n"; the last
\* line needs no terminator.  RawLines splits at "\n", StripCR drops the "\r"
\* of a "\r\n".
RECURSIVE RawLines(_, _)
RawLines(contents, line) ==
    IF contents = <<>> THEN (IF line = <<>> THEN <<>> ELSE <<[text |-> line, ended |-> FALSE]>>)
    ELSE IF Head(contents) = LF
         THEN <<[text |-> line, ended |-> TRUE]>> \o RawLines(Tail(contents), <<>>)
         ELSE RawLines(Tail(contents), Append(line, Head(contents)))

StripCR(l) ==
    IF l.ended /\ l.text # <<>> /\ l.text[Len(l.text)] = CR
    THEN SubSeq(l.text, 1, Len(l.text) - 1)
    ELSE l.text

Lines(contents) ==
    LET raw == RawLines(contents, <<>>)
    IN [i \in 1..Len(raw) |-> StripCR(raw[i])]

\* Document::open(filename): the Document, or an error that leaves it as it was
Open(d, filename, dsk, io) ==
    LET exists == IsSome(dsk[filename])
        failed == exists /\ io \in {0, 1}         \* File::open?, read_to_string?
        contents == IF exists THEN Unwrap(dsk[filename]) ELSE <<>>
        lines == Lines(contents)
    IN IF failed THEN [document |-> d, ok |-> FALSE]
       ELSE [document |-> [d EXCEPT !.rows = [i \in 1..Len(lines) |-> Cells(lines[i])],
                                    !.cursor = [x |-> 0, y |-> 0],
                                    !.filename = Some(filename)],
             ok |-> TRUE]

\* the write_all calls of save, in order: each row's string, then "\n"
RECURSIVE SaveWrites(_)
SaveWrites(rs) ==
    IF rs = <<>> THEN <<>>
    ELSE <<RowAsString(Head(rs)), <<LF>>>> \o SaveWrites(Tail(rs))

RECURSIVE Concat(_)
Concat(chunks) == IF chunks = <<>> THEN <<>> ELSE Head(chunks) \o Concat(Tail(chunks))

\* Document::save(): the disk afterwards and whether save returned Ok
Save(d, dsk, io) ==
    IF ~IsSome(d.filename) THEN [disk |-> dsk, ok |-> TRUE]
    ELSE IF io = 0 THEN [disk |-> dsk, ok |-> FALSE]      \* File::create?
    ELSE LET name == Unwrap(d.filename)
             writes == SaveWrites(d.rows)
             done == IF io >= 1 /\ io <= Len(writes) THEN io - 1 ELSE Len(writes)
         IN [disk |-> [dsk EXCEPT ![name] = Some(Concat(SubSeq(writes, 1, done)))],
             ok |-> done = Len(writes)]

SetFilename(d, filename) == [d EXCEPT !.filename = Some(filename)]

(***************************************************************************)
(* The component stack.  ui holds the state of every component:            *)
(*   error (Status), selection (FileChooser), search (Find),               *)
(*   children and selected (Tabs), each child a TextArea.                  *)
(* An update returns the stack (and the disk) after the event and its      *)
(* io::Result<bool>: res is "true", "false" or "err".                      *)
(***************************************************************************)
TextAreaNew(d) == [document |-> d, window_offset |-> 0]

CurrentChild(s) == s.children[s.selected + 1]

\* Component::document() of the stack: the selected tab's Document
DocumentOf(s) == CurrentChild(s).document

\* the stack after the selected tab's Document became d (a panic in a Document
\* operation is a panic of the thread)
WithDocument(s, d) ==
    [s EXCEPT !.children[s.selected + 1].document = d,
              !.panicked = @ \/ d.panicked]

\* Tabs::update
TabsUpdate(s, e, width) ==
    LET len == Len(s.children)
    IN CASE e.kind = "Next" -> [s EXCEPT !.selected = (s.selected + 1) % len]
         [] e.kind = "Prev" -> [s EXCEPT !.selected = (s.selected + len - 1) % len]
         [] e.kind = "New" ->
                [s EXCEPT !.children = VecInsert(@, s.selected + 1, TextAreaNew(Blank)),
                          !.selected = @ + 1]
         [] e.kind = "Close" ->
                LET left == VecRemove(s.children, s.selected)
                IN IF Len(left) = 0
                   THEN [s EXCEPT !.children = left, !.panicked = TRUE]  \* x % 0
                   ELSE [s EXCEPT !.children = left,
                                  !.selected = (s.selected + Len(left) - 1) % Len(left)]
         [] OTHER -> WithDocument(s, TextAreaUpdate(DocumentOf(s), e, width))

\* The bool Find receives from Tabs::update.  Tabs::update and TextArea::update
\* return io::Result<()> in the source; the Component trait makes it a bool,
\* which section 4.4.1 of the specification gives as true.
TabsDirty(e) == "true"

\* Find::update
FindUpdate(s, e, width) ==
    IF e.kind = "Find" THEN [s |-> [s EXCEPT !.search = Some(<<>>)], res |-> "true"]
    ELSE IF IsSome(s.search) THEN
        CASE e.kind = "Input" ->
                [s |-> [s EXCEPT !.search = Some(Append(Unwrap(s.search), e.text))],
                 res |-> "true"]
          [] e.kind = "Enter" ->
                [s |-> IF Len(Unwrap(s.search)) # 0
                       THEN WithDocument(s, FindNext(DocumentOf(s), Unwrap(s.search)))
                       ELSE s,
                 res |-> "true"]
          [] e.kind = "Escape" -> [s |-> [s EXCEPT !.search = NoneOpt], res |-> "true"]
          [] OTHER -> [s |-> s, res |-> "false"]
    ELSE [s |-> TabsUpdate(s, e, width), res |-> TabsDirty(e)]

\* FileChooser::update.  find is what the call of Find::update returned, or
\* "none" when the event did not reach Find.
FileChooserUpdate(s, dsk, e, width, io) ==
    IF IsSome(s.selection) THEN
        LET selection == Unwrap(s.selection)
        IN CASE e.kind = "Input" ->
                  [s |-> [s EXCEPT !.selection =
                              Some([selection EXCEPT !.name = Append(@, e.text)])],
                   disk |-> dsk, res |-> "true", find |-> "none"]
             [] e.kind = "Enter" ->
                  IF Len(selection.name) = 0
                  THEN [s |-> s, disk |-> dsk, res |-> "true", find |-> "none"]
                  ELSE IF selection.mode = "Open"
                  THEN LET child == FindUpdate(s, Ev("New"), width)
                           opened == Open(DocumentOf(child.s), selection.name, dsk, io)
                       IN IF ~opened.ok
                          THEN [s |-> child.s, disk |-> dsk, res |-> "err", find |-> child.res]
                          ELSE [s |-> [WithDocument(child.s, opened.document)
                                          EXCEPT !.selection = NoneOpt],
                                disk |-> dsk, res |-> child.res, find |-> child.res]
                  ELSE LET named == WithDocument(s, SetFilename(DocumentOf(s), selection.name))
                           written == Save(DocumentOf(named), dsk, io)
                       IN IF ~written.ok
                          THEN [s |-> named, disk |-> written.disk, res |-> "err",
                                find |-> "none"]
                          ELSE [s |-> [named EXCEPT !.selection = NoneOpt],
                                disk |-> written.disk, res |-> "true", find |-> "none"]
             [] e.kind = "Escape" ->
                  [s |-> [s EXCEPT !.selection = NoneOpt], disk |-> dsk, res |-> "true",
                   find |-> "none"]
             [] OTHER -> [s |-> s, disk |-> dsk, res |-> "false", find |-> "none"]
    ELSE
        CASE e.kind = "Open" ->
                [s |-> [s EXCEPT !.selection = Some([mode |-> "Open", name |-> <<>>])],
                 disk |-> dsk, res |-> "true", find |-> "none"]
          [] e.kind = "Save" ->
                IF IsSome(DocumentOf(s).filename)
                THEN LET written == Save(DocumentOf(s), dsk, io)
                     IN [s |-> s, disk |-> written.disk,
                         res |-> IF written.ok THEN "true" ELSE "err", find |-> "none"]
                ELSE [s |-> [s EXCEPT !.selection = Some([mode |-> "Save", name |-> <<>>])],
                      disk |-> dsk, res |-> "true", find |-> "none"]
          [] OTHER ->
                LET child == FindUpdate(s, e, width)
                IN [s |-> child.s, disk |-> dsk, res |-> child.res, find |-> child.res]

IoErrorMessage == "io error"

\* Status::update.  file_chooser and find are what the calls of the updates
\* below returned, "none" for a component the event did not reach.
StatusUpdate(s, dsk, e, width, io) ==
    LET s1 == IF e.kind = "Error" THEN [s EXCEPT !.error = Some(e.text)] ELSE s
    IN IF IsSome(s1.error)
       THEN [s |-> IF e.kind = "Escape" THEN [s1 EXCEPT !.error = NoneOpt] ELSE s1,
             disk |-> dsk, res |-> "false", file_chooser |-> "none", find |-> "none"]
       ELSE LET u == FileChooserUpdate(s1, dsk, e, width, io)
            IN IF u.res = "err"
               THEN [s |-> [u.s EXCEPT !.error = Some(IoErrorMessage)], disk |-> u.disk,
                     res |-> "false", file_chooser |-> u.res, find |-> u.find]
               ELSE [s |-> u.s, disk |-> u.disk, res |-> u.res,
                     file_chooser |-> u.res, find |-> u.find]

(***************************************************************************)
(* Specification SpecUi: the stack over one blank tab receives the events  *)
(* the editor loop hands to the root component.                            *)
(***************************************************************************)
MaxTabs == 2        \* tabs
UiMaxCells == 1     \* cells in a tab's document
UiMaxRows == 1      \* rows in a tab's document
MaxText == 1        \* graphemes of a search string or a file name
MaxIoCall == 2      \* the I/O calls of an update that may fail: 0..MaxIoCall

UiChars == {"a"}
FileNames == StringsUpTo(UiChars, MaxText) \ {<<>>}
IoOutcomes == NoFailure..MaxIoCall

KeyKinds ==
    {"Up", "Down", "Left", "Right", "PageUp", "PageDown", "Home", "End", "Tab",
     "Delete", "Backspace", "Nothing"}
TabKinds == {"Next", "Prev", "New", "Close"}
ModalKinds == {"Find", "Open", "Save", "Enter", "Escape"}

UiInitial ==
    [error |-> NoneOpt, selection |-> NoneOpt, search |-> NoneOpt,
     children |-> <<TextAreaNew(Blank)>>, selected |-> 0, panicked |-> FALSE]

UiWithinBounds(s) ==
    /\ Len(s.children) <= MaxTabs
    /\ \A i \in 1..Len(s.children) :
          LET d == s.children[i].document
          IN /\ TotalCells(d) <= UiMaxCells
             /\ Len(d.rows) <= UiMaxRows
             /\ d.cursor.x <= MaxCursor /\ d.cursor.y <= MaxCursor
    /\ IsSome(s.search) => Len(Unwrap(s.search)) <= MaxText
    /\ IsSome(s.selection) => Len(Unwrap(s.selection).name) <= MaxText

InitUi ==
    /\ ui = UiInitial
    /\ disk \in [FileNames -> {NoneOpt, Some(<<"a", LF>>)}]
    /\ dirty = FALSE
    /\ IdleDoc
    /\ IdleWrap
    /\ IdleFile
    /\ IdleMain

\* the dirty flag the editor loop holds after an update (none after a panic)
DirtyAfter(r) == IF r.s.panicked THEN dirty ELSE (r.res = "true")

\* the editor loop hands event e to the root, Status::update(e, width), and
\* keeps what it returned
Dispatch(e, width, io) ==
    /\ ~ui.panicked
    /\ \E r \in {StatusUpdate(ui, disk, e, width, io)} :
          /\ UiWithinBounds(r.s)
          /\ ui' = r.s
          /\ disk' = r.disk
          /\ dirty' = DirtyAfter(r)
    /\ UNCHANGED <<docVars, wrapVars, fileVars, mainVars>>

UiKey == \E k \in KeyKinds, width \in 1..MaxCols : Dispatch(Ev(k), width, NoFailure)

UiInput == \E c \in UiChars, width \in 1..MaxCols : Dispatch(Input(c), width, NoFailure)

UiTab == \E k \in TabKinds, width \in 1..MaxCols : Dispatch(Ev(k), width, NoFailure)

UiModal ==
    \E k \in ModalKinds, width \in 1..MaxCols, io \in IoOutcomes : Dispatch(Ev(k), width, io)

UiError == \E width \in 1..MaxCols : Dispatch(ErrorEv("read error"), width, NoFailure)

NextUi == UiKey \/ UiInput \/ UiTab \/ UiModal \/ UiError

SpecUi == InitUi /\ [][NextUi]_vars

UiEvents ==
    {Ev(k) : k \in KeyKinds \cup TabKinds \cup ModalKinds}
        \cup {Input(c) : c \in UiChars} \cup {ErrorEv("read error")}

\* C4: after any sequence of Next, Prev, New and Close events (and forwarded
\* events) Tabs holds at least one child and selected < children.len(); closing
\* the only remaining tab leaves exactly one tab over a blank document,
\* selected = 0.
C4_TabsNeverEmpty ==
    /\ ~ui.panicked
    /\ Len(ui.children) >= 1
    /\ ui.selected < Len(ui.children)
    /\ Len(ui.children) = 1 =>
          LET closed == TabsUpdate(ui, Ev("Close"), 1)
          IN /\ ~closed.panicked
             /\ closed.children = <<TextAreaNew(Blank)>>
             /\ closed.selected = 0

\* what FileChooser owns and what lies below it; what Find owns and below
FileChooserView(s) ==
    [selection |-> s.selection, search |-> s.search, children |-> s.children,
     selected |-> s.selected]
FindView(s) == [search |-> s.search, children |-> s.children, selected |-> s.selected]

\* C9: whenever the update of Status, FileChooser or Find returns dirty = false
\* for an event, that component's own state and the state of everything below
\* it are what they were before the event.
C9_NotDirtyMeansUnchanged ==
    ~ui.panicked =>
        \A e \in UiEvents, width \in 1..MaxCols, io \in IoOutcomes :
            LET r == StatusUpdate(ui, disk, e, width, io)
            IN ~r.s.panicked =>
                /\ r.res = "false" => r.s = ui
                /\ r.file_chooser = "false" => FileChooserView(r.s) = FileChooserView(ui)
                /\ r.find = "false" => FindView(r.s) = FindView(ui)

\* C10: when a child update returns an error or an Error(msg) event arrives,
\* Status records the message and returns dirty = true; the Escape that clears
\* the error returns dirty = true as well.
C10_ErrorsAreDirty ==
    ~ui.panicked =>
        \A e \in UiEvents, width \in 1..MaxCols, io \in IoOutcomes :
            LET r == StatusUpdate(ui, disk, e, width, io)
            IN /\ (e.kind = "Error" \/ r.file_chooser = "err") =>
                      (IsSome(r.s.error) /\ r.res = "true")
               /\ (IsSome(ui.error) /\ e.kind = "Escape") =>
                      (r.s.error = NoneOpt /\ r.res = "true")

\* the prompt of FileChooser holds a non-empty name in mode m, and no error
\* banner keeps events from it
Prompting(m) ==
    /\ ~ui.panicked
    /\ ~IsSome(ui.error)
    /\ IsSome(ui.selection)
    /\ Unwrap(ui.selection).mode = m
    /\ Len(Unwrap(ui.selection).name) # 0

\* C17: while Status.error is set, every event other than Escape leaves the
\* error and the whole child stack (file prompt, search, tab list, documents,
\* cursors) unchanged, and Escape clears the error without reaching the child.
C17_ErrorSwallowsEvents ==
    (~ui.panicked /\ IsSome(ui.error)) =>
        \A e \in UiEvents, width \in 1..MaxCols, io \in IoOutcomes :
            LET r == StatusUpdate(ui, disk, e, width, io)
            IN /\ r.disk = disk
               /\ r.file_chooser = "none"
               /\ r.s = IF e.kind = "Escape" THEN [ui EXCEPT !.error = NoneOpt] ELSE ui

\* C29: delete_next never moves the cursor.  On a non-empty document with the
\* cursor not at (last row, last cell) the cursor is unchanged and either the
\* cell at index x of row y is removed or row y + 1 is merged onto row y; at
\* (last row, last cell) and on the empty document nothing changes.
C29_DeleteNextKeepsCursor ==
    ~document.panicked =>
        LET d == document
            r == DeleteNext(d)
            y == d.cursor.y + 1
        IN IF Len(d.rows) = 0 \/ (OnLastLine(d) /\ OnLastChar(d)) THEN r = d
           ELSE /\ ~r.panicked
                /\ r.cursor = d.cursor
                /\ r.filename = d.filename
                /\ \/ /\ d.cursor.x < RowLen(d.rows[y])
                      /\ r.rows = [d.rows EXCEPT ![y] = RowRemove(@, d.cursor.x)]
                   \/ /\ d.cursor.x = RowLen(d.rows[y])
                      /\ r.rows = SubSeq(d.rows, 1, y - 1)
                                     \o <<RowAppend(d.rows[y], d.rows[y + 1])>>
                                     \o SubSeq(d.rows, y + 2, Len(d.rows))

\* C30: at most one modal prompt is active: FileChooser's selection and Find's
\* search are never both set.
C30_OnePromptAtATime == ~(IsSome(ui.selection) /\ IsSome(ui.search))

\* C11: Enter on FileChooser's Open prompt with a non-empty name, in every
\* reachable state (Find's search active included), adds one tab and loads the
\* file into it: every tab that existed before is unchanged.
C11_OpenLoadsIntoFreshTab ==
    Prompting("Open") =>
        \A width \in 1..MaxCols :
            LET r == StatusUpdate(ui, disk, Ev("Enter"), width, NoFailure)
            IN /\ Len(r.s.children) = Len(ui.children) + 1
               /\ VecRemove(r.s.children, r.s.selected) = ui.children
               /\ DocumentOf(r.s).filename = Some(Unwrap(ui.selection).name)

\* C12: when the open performed by FileChooser fails with an I/O error, the tab
\* selected before is still selected and unchanged, and no tab has been added.
C12_FailedOpenLeavesTabs ==
    Prompting("Open") =>
        \A width \in 1..MaxCols, io \in IoOutcomes :
            LET r == StatusUpdate(ui, disk, Ev("Enter"), width, io)
            IN r.file_chooser = "err" =>
                  /\ r.s.children = ui.children
                  /\ r.s.selected = ui.selected

\* C13: when save() returns an error, because File::create failed or because a
\* later write failed, the file on disk holds what it held before save().
C13_FailedSaveLeavesFile ==
    (~ui.panicked /\ IsSome(DocumentOf(ui).filename)) =>
        \A io \in IoOutcomes :
            LET written == Save(DocumentOf(ui), disk, io)
            IN ~written.ok => written.disk = disk

(***************************************************************************)
(* Specification SpecFile: a file of at most MaxFileLen characters is      *)
(* opened into a blank Document, which is then saved under the same name.  *)
(* file is what the file held before, saved is Some(what save wrote).      *)
(***************************************************************************)
MaxFileLen == 3

FileChars == {"a", " ", CR, LF}
FileName == <<"f">>

\* the file system holding contents under FileName
OnDisk(contents) == [n \in {FileName} |-> Some(contents)]

InitFile ==
    /\ file \in StringsUpTo(FileChars, MaxFileLen)
    /\ saved = NoneOpt
    /\ document = Blank
    /\ IdleWrap
    /\ IdleUi
    /\ IdleMain

DoOpen ==
    /\ ~IsSome(document.filename)
    /\ document' = Open(document, FileName, OnDisk(file), NoFailure).document
    /\ UNCHANGED <<file, saved, wrapVars, uiVars, mainVars>>

DoSave ==
    /\ IsSome(document.filename)
    /\ ~IsSome(saved)
    /\ saved' = Save(document, OnDisk(file), NoFailure).disk[FileName]
    /\ UNCHANGED <<file, document, wrapVars, uiVars, mainVars>>

NextFile == DoOpen \/ DoSave

SpecFile == InitFile /\ [][NextFile]_vars

Whitespace == {" ", TabGrapheme}

\* f has whitespace at the end of a line: before "\n", before "\r\n" or at the
\* end of the file
TrailingWhitespace(f) ==
    \E i \in 1..Len(f) :
        /\ f[i] \in Whitespace
        /\ \/ i = Len(f)
           \/ f[i + 1] = LF
           \/ (i + 2 <= Len(f) /\ f[i + 1] = CR /\ f[i + 2] = LF)

\* C8: for a file without trailing whitespace, open(f) followed by save()
\* writes back the same character sequence (every line terminator and every
\* grapheme unchanged), except that a missing final newline is added.
C8_OpenSaveReproducesFile ==
    (IsSome(saved) /\ ~TrailingWhitespace(file)) =>
        \/ Unwrap(saved) = file
        \/ (file # <<>> /\ file[Len(file)] # LF /\ Unwrap(saved) = Append(file, LF))

(***************************************************************************)
(* Specification SpecMain: main after terminal::init, Editor::run and the  *)
(* ways the process ends.  main holds                                      *)
(*   pc        "draw" (top of the loop), "read" (blocked in read()),       *)
(*             "exit" (after break, before terminal::exit), "done"         *)
(*   paused    the local of run                                            *)
(*   raw, alternate   the terminal: raw mode, alternate screen             *)
(*   termios   CELL, the snapshot init took with tcgetattr                  *)
(*   attrs     the attributes last handed to tcsetattr                      *)
(*   captured  what tcgetattr reported at init (never written afterwards)   *)
(*   exit_ran  terminal::exit has been called                              *)
(*   left      how the process ended: "none", "ok" (main returned Ok),     *)
(*             "err" (main returned Err), "panic", "abort"                 *)
(*   width, height    the Editor's size                                    *)
(*   search    Editor.search, the text of the search prompt if it is open   *)
(*   last      the event the loop received last                             *)
(*   wrote     a frame was written since the last Pause or Resume event     *)
(*   since_pause   a Pause event was processed and no Resume event since    *)
(*   other     an event other than Pause and Resume was processed since the *)
(*             last Pause or Resume                                         *)
(* and document is the Editor's document.  An I/O call that may fail       *)
(* succeeds or fails: ok \in BOOLEAN.                                      *)
(***************************************************************************)
HeaderNameLen == 8      \* "New File".len()
FindPrefixLen == 6      \* "FIND: ".len()
PositionLen == 3        \* format!("{}:{}", col + 1, row + 1).len(), below 10
MainMaxSearch == 1      \* graphemes typed into the search prompt
MainMaxCells == 2       \* cells typed into the Editor's document

MainChars == {"a", WideGrapheme}
Widths == {0, HeaderNameLen, 80}
Heights == {0, 2, 24}

\* draw_rows subtracts past zero: header's width - text.len() (height - 2 needs
\* height = 1, which Heights leaves out)
\* and footer's width - status.len() - position.len() - 2 with the status
\* "FIND: " + search and a position of PositionLen bytes
DrawUnderflows(m) ==
    /\ m.height # 0
    /\ \/ m.width < HeaderNameLen
       \/ m.width < (IF IsSome(m.search) THEN FindPrefixLen + StrByteLen(Unwrap(m.search))
                     ELSE 0) + PositionLen + 2

Control(c) == [kind |-> "Control", text |-> c, w |-> 0, h |-> 0]

\* process_search: the Editor and its document after the event
ProcessSearch(m, d, e) ==
    CASE e.kind = "Input" ->
            [m |-> [m EXCEPT !.search = Some(Append(Unwrap(@), e.text))], d |-> d]
      [] e.kind = "Enter" ->
            [m |-> m, d |-> IF StrByteLen(Unwrap(m.search)) # 0
                            THEN FindNext(d, Unwrap(m.search)) ELSE d]
      [] e.kind = "Escape" -> [m |-> [m EXCEPT !.search = NoneOpt], d |-> d]
      [] OTHER -> [m |-> m, d |-> d]

\* process_event, for the events of MainEvents
ProcessEvent(m, d, e) ==
    IF IsSome(m.search) THEN ProcessSearch(m, d, e)
    ELSE CASE e.kind = "Input" -> [m |-> m, d |-> Insert(d, e.text)]
           [] e.kind = "Control" /\ e.text = "f" ->
                 [m |-> [m EXCEPT !.search = Some(<<>>)], d |-> d]
           [] e.kind = "Enter" -> [m |-> m, d |-> InsertLine(d)]
           [] e.kind = "Resize" -> [m |-> [m EXCEPT !.width = e.w, !.height = e.h], d |-> d]
           [] OTHER -> [m |-> m, d |-> d]

\* a loop that writes every frame
AlwaysWrites(m) == TRUE

\* if !paused { write(&editor.buffer)?; }
WritesFrame(m) == ~m.paused

\* the attributes tcgetattr may report at init: a cooked terminal, and one
\* with echo and flow control off and a VMIN of its own
InitialTermios ==
    {[iflag |-> {"BRKINT", "ICRNL", "IXON"}, oflag |-> {"OPOST"}, cflag |-> {"CS8"},
      lflag |-> {"ECHO", "ICANON", "IEXTEN", "ISIG"}, vmin |-> 1, vtime |-> 0],
     [iflag |-> {"ICRNL"}, oflag |-> {"OPOST"}, cflag |-> {},
      lflag |-> {"ICANON", "ISIG"}, vmin |-> 4, vtime |-> 0]}

\* raw_mode_termios
RawModeTermios(termios) ==
    [iflag |-> termios.iflag \ {"BRKINT", "ICRNL", "INPCK", "ISTRIP", "IXON"},
     oflag |-> termios.oflag \ {"OPOST"},
     cflag |-> termios.cflag \cup {"CS8"},
     lflag |-> termios.lflag \ {"ECHO", "ICANON", "IEXTEN", "ISIG"},
     vmin |-> 0, vtime |-> 1]

\* an enter_raw_mode that takes the snapshot anew from the terminal
EnterRawModeAnew(m) ==
    [m EXCEPT !.raw = TRUE, !.termios = m.attrs, !.attrs = RawModeTermios(m.attrs)]

\* enter_raw_mode: tcsetattr(raw_mode_termios(CELL.get().unwrap()))
EnterRawMode(m) == [m EXCEPT !.raw = TRUE, !.attrs = RawModeTermios(m.termios)]

\* exit_raw_mode: tcsetattr(CELL.get().unwrap())
ExitRawMode(m) == [m EXCEPT !.raw = FALSE, !.attrs = m.termios]

\* terminal::exit(): exit_raw_mode, then exit_alternate_buffer()?
TerminalExit(m, ok) ==
    [ExitRawMode(m) EXCEPT !.alternate = IF ok THEN FALSE ELSE @, !.exit_ran = TRUE]

\* a panic of the main thread: the hook of terminal::init calls exit(), then
\* the default hook; the process ends
PanicHook(m, ok) == [TerminalExit(m, ok) EXCEPT !.left = "panic", !.pc = "done"]

\* main returns the Err of a ? in run: terminal::exit() is skipped
ReturnErr(m) == [m EXCEPT !.left = "err", !.pc = "done"]

\* e => editor = editor.update(e): the next state of main and document
Updated(e) ==
    \E ok \in BOOLEAN, r \in {ProcessEvent(main, document, e)} :
        /\ TotalCells(r.d) <= MainMaxCells
        /\ Len(r.d.rows) <= MainMaxCells
        /\ document' = r.d
        /\ main' = IF r.d.panicked THEN PanicHook([main EXCEPT !.last = Some(e)], ok)
                   ELSE [r.m EXCEPT !.pc = "draw", !.other = TRUE, !.last = Some(e)]

\* main when run starts: terminal::init has taken the snapshot t and entered
\* the alternate screen and raw mode; Editor::new
EditorNew(t) ==
    EnterRawMode(
        [pc |-> "draw", paused |-> FALSE, raw |-> FALSE, alternate |-> TRUE,
         termios |-> t, attrs |-> t, captured |-> t,
         exit_ran |-> FALSE, left |-> "none", width |-> 0, height |-> 0,
         wrote |-> FALSE, since_pause |-> FALSE, other |-> FALSE,
         search |-> NoneOpt, last |-> NoneOpt])

InitMain ==
    /\ \E t \in InitialTermios : main = EditorNew(t)
    /\ document = Blank
    /\ IdleWrap
    /\ IdleUi
    /\ IdleFile

\* editor.draw(), then write(&editor.buffer)? unless paused.  The underflow in
\* header panics with overflow checks; without them vec! is asked for about
\* usize::MAX / 2 bytes and the allocation failure aborts the process.
MainDraw ==
    /\ main.pc = "draw"
    /\ \E overflow_checks \in BOOLEAN, ok \in BOOLEAN :
          main' = IF DrawUnderflows(main)
                  THEN IF overflow_checks THEN PanicHook(main, ok)
                       ELSE [main EXCEPT !.left = "abort", !.pc = "done"]
                  ELSE IF ~WritesFrame(main) \/ ok
                       THEN [main EXCEPT !.pc = "read", !.wrote = @ \/ WritesFrame(main)]
                  ELSE ReturnErr([main EXCEPT !.wrote = @ \/ WritesFrame(main)])
    /\ UNCHANGED <<docVars, wrapVars, uiVars, fileVars>>

\* Event::Pause: paused = true; terminal::pause()?
MainPause ==
    /\ main.pc = "read"
    /\ \E ok \in BOOLEAN :
          LET m == [ExitRawMode(main) EXCEPT !.paused = TRUE, !.since_pause = TRUE,
                                !.other = FALSE, !.wrote = FALSE, !.last = Some(Ev("Pause"))]
          IN main' = IF ok THEN [m EXCEPT !.alternate = FALSE, !.pc = "draw"]
                     ELSE ReturnErr(m)
    /\ UNCHANGED <<docVars, wrapVars, uiVars, fileVars>>

\* Event::Resume: paused = false; terminal::resume()?
MainResume ==
    /\ main.pc = "read"
    /\ \E ok \in BOOLEAN :
          LET m == [main EXCEPT !.paused = FALSE, !.since_pause = FALSE, !.other = FALSE,
                                !.wrote = FALSE, !.last = Some(Ev("Resume"))]
          IN main' = IF ok THEN [EnterRawMode(m) EXCEPT !.alternate = TRUE, !.pc = "draw"]
                     ELSE ReturnErr(m)
    /\ UNCHANGED <<docVars, wrapVars, uiVars, fileVars>>

\* Event::Control("q"): break
MainQuit ==
    /\ main.pc = "read"
    /\ main' = [main EXCEPT !.pc = "exit", !.last = Some(Control("q"))]
    /\ UNCHANGED <<docVars, wrapVars, uiVars, fileVars>>

\* after run returned Ok: terminal::exit()?; Ok(())
MainExit ==
    /\ main.pc = "exit"
    /\ \E ok \in BOOLEAN :
          main' = [TerminalExit(main, ok) EXCEPT !.left = IF ok THEN "ok" ELSE "err",
                                                 !.pc = "done"]
    /\ UNCHANGED <<docVars, wrapVars, uiVars, fileVars>>

\* Event::Resize(width, height)
MainResize ==
    /\ main.pc = "read"
    /\ \E w \in Widths, h \in Heights : Updated(Resize(w, h))
    /\ UNCHANGED <<wrapVars, uiVars, fileVars>>

\* Event::Input(c): into the search prompt if it is open, else into the
\* document, where the assert of Document::insert panics on a grapheme of
\* several bytes
MainInput ==
    /\ main.pc = "read"
    /\ IsSome(main.search) => Len(Unwrap(main.search)) < MainMaxSearch
    /\ \E c \in MainChars : Updated(Input(c))
    /\ UNCHANGED <<wrapVars, uiVars, fileVars>>

\* Event::Control("f"): opens the search prompt
MainFind ==
    /\ main.pc = "read"
    /\ Updated(Control("f"))
    /\ UNCHANGED <<wrapVars, uiVars, fileVars>>

\* Event::Enter, Event::Escape
MainKey ==
    /\ main.pc = "read"
    /\ \E k \in {"Enter", "Escape"} : Updated(Ev(k))
    /\ UNCHANGED <<wrapVars, uiVars, fileVars>>

\* Event::Exit, what process_keypress returns for Ctrl-Q: run has no arm for
\* it, so it reaches editor.update like any other event
MainExitEvent ==
    /\ main.pc = "read"
    /\ Updated(Ev("Exit"))
    /\ UNCHANGED <<wrapVars, uiVars, fileVars>>

NextMain ==
    \/ MainDraw
    \/ MainPause
    \/ MainResume
    \/ MainQuit
    \/ MainExit
    \/ MainResize
    \/ MainInput
    \/ MainFind
    \/ MainKey
    \/ MainExitEvent

SpecMain == InitMain /\ [][NextMain]_vars

\* C5: on every path by which the program leaves main after terminal
\* initialisation (the exit event, an error returned from the run loop by
\* write, pause or resume, or a panic) terminal::exit has run and the terminal
\* is back in cooked mode.
C5_TerminalRestoredOnEveryExit ==
    main.left \in {"ok", "err", "panic"} => (main.exit_ran /\ ~main.raw)

\* C21: an Exit event received by the main loop ends the loop, in every
\* editor state (search open or not, paused or not); it is never handed to the
\* editing logic.
C21_ExitEndsLoop ==
    (IsSome(main.last) /\ Unwrap(main.last).kind = "Exit") => main.pc \in {"exit", "done"}

C23_SnapshotImmutable ==
    /\ main.termios = main.captured
    /\ main.attrs = IF main.raw THEN RawModeTermios(main.captured) ELSE main.captured

\* a resume has entered raw mode again
C23_Witness ==
    /\ IsSome(main.last) /\ Unwrap(main.last).kind = "Resume"
    /\ main.raw /\ main.alternate /\ ~main.paused /\ main.pc = "draw"

\* C20: between a Pause event and the next Resume event the main loop writes
\* no rendered frame, whatever other events it processes in between.
C20_NoFrameWhilePaused == main.since_pause => ~main.wrote

\* paused, a Resize or a key was processed since, and the turn is over
C20_Witness ==
    main.since_pause /\ main.other /\ main.pc = "read" /\ TotalCells(document) > 0

(***************************************************************************)
(* TextArea::render.  split of text_area.rs works on the row as a String:  *)
(* it slices by byte offsets, and a slice that does not start and end at   *)
(* the boundary of a character panics.  A line of a Window is a record:    *)
(* text is its graphemes, sgr says that it went through styled().          *)
(***************************************************************************)
\* the byte offsets at which a grapheme of s starts, and the length of s
Boundaries(s) == {StrByteLen(SubSeq(s, 1, k)) : k \in 0..Len(s)}

\* the number of graphemes before byte offset a, a boundary of s
GraphemesBefore(s, a) == CHOOSE k \in 0..Len(s) : StrByteLen(SubSeq(s, 1, k)) = a

\* &line[a..b] panics
SlicePanics(s, a, b) == a \notin Boundaries(s) \/ b \notin Boundaries(s)

\* &line[a..b], a and b boundaries of s
ByteSlice(s, a, b) == SubSeq(s, GraphemesBefore(s, a) + 1, GraphemesBefore(s, b))

\* split(line, width) of text_area.rs panics; width >= 1
TextSplitPanics(line, width) ==
    LET n == StrByteLen(line)
    IN \/ \E i \in 0..((n \div width) - 1) : SlicePanics(line, i * width, i * width + width)
       \/ SlicePanics(line, n - (n % width), n)

\* split(line, width) of text_area.rs; width >= 1
TextSplit(line, width) ==
    LET n == StrByteLen(line)
    IN [i \in 1..(n \div width) |-> ByteSlice(line, (i - 1) * width, i * width)]
           \o <<ByteSlice(line, n - (n % width), n)>>

PlainLine(text) == [sgr |-> FALSE, text |-> text]
StyledLine(line) == [sgr |-> TRUE, text |-> line.text]

\* the loop of render over rows i .., from the lines and the cursor so far
RECURSIVE RenderRows(_, _, _, _, _, _)
RenderRows(rs, i, width, dcursor, lines, cursor) ==
    IF i >= Len(rs) THEN [lines |-> lines, cursor |-> cursor, panicked |-> FALSE]
    ELSE LET line == RowAsString(rs[i + 1])
         IN IF TextSplitPanics(line, width)
            THEN [lines |-> lines, cursor |-> cursor, panicked |-> TRUE]
            ELSE LET split_lines == TextSplit(line, width)
                     cursor1 == IF i = dcursor.y
                                THEN [x |-> dcursor.x % width,
                                      y |-> Len(lines) + (dcursor.x \div width)]
                                ELSE cursor
                 IN RenderRows(rs, i + 1, width, dcursor,
                               lines \o [n \in 1..Len(split_lines) |-> PlainLine(split_lines[n])],
                               cursor1)

\* a scroll that lets the cursor get one line below the window
ScrollLate(window_offset, y, height) ==
    IF y < window_offset THEN y
    ELSE IF y > window_offset + height THEN y - height
    ELSE window_offset

\* render: the two tests on cursor.y, giving the new window_offset
ScrollToReveal(window_offset, y, height) ==
    LET offset1 == IF y < window_offset THEN y ELSE window_offset
    IN IF y > offset1 + height - 1 THEN y - height + 1 ELSE offset1

EmptyWindow == [lines |-> <<>>, cursor |-> [x |-> 0, y |-> 0]]

\* TextArea::render(width, height), height >= 1: the TextArea afterwards and
\* the Window
Render(t, width, height) ==
    IF width = 0 THEN [text_area |-> t, window |-> EmptyWindow]
    ELSE LET w == RenderRows(t.document.rows, 0, width, t.document.cursor, <<>>,
                             [x |-> 0, y |-> 0])
             offset2 == ScrollToReveal(t.window_offset, w.cursor.y, height)
             last_line == Min(offset2 + height, Len(w.lines))
             visible == SubSeq(w.lines, offset2 + 1, last_line)
                           \o [n \in 1..(offset2 + height - last_line) |-> PlainLine(<<"~">>)]
         IN IF w.panicked \/ offset2 > last_line      \* lines[window_offset..last_line]
            THEN [text_area |-> [t EXCEPT !.document = Panic(@)], window |-> EmptyWindow]
            ELSE [text_area |-> [t EXCEPT !.window_offset = offset2],
                  window |-> [lines |-> [visible EXCEPT ![1] = StyledLine(@)],
                              cursor |-> [x |-> w.cursor.x, y |-> w.cursor.y - offset2]]]

(***************************************************************************)
(* Specification SpecRender: a TextArea over a document opened from a file *)
(* of at most MaxRenderFile characters; each step is one turn of the       *)
(* editor loop, update(event, width) then render(width, height).  ui holds *)
(* the TextArea.                                                           *)
(***************************************************************************)
MaxRenderFile == 1
RenderMaxCells == 2
RenderMaxCols == 2
RenderMaxRows == 2
MaxHeight == 2

RenderChars == {"a", WideGrapheme, LF}
RenderInputs == {"a"}
RenderEvents == {Ev(k) : k \in EditKinds} \cup {Input(c) : c \in RenderInputs}

InitRender ==
    /\ file \in StringsUpTo(RenderChars, MaxRenderFile)
    /\ ui = [text_area |-> TextAreaNew(Open(Blank, FileName, OnDisk(file), NoFailure).document)]
    /\ disk = None
    /\ dirty = FALSE
    /\ saved = NoneOpt
    /\ IdleDoc
    /\ IdleWrap
    /\ IdleMain

UpdateRender ==
    /\ ~ui.text_area.document.panicked
    /\ \E e \in RenderEvents, width \in 1..RenderMaxCols, height \in 1..MaxHeight :
          LET d == TextAreaUpdate(ui.text_area.document, e, width)
          IN /\ TotalCells(d) <= RenderMaxCells
             /\ Len(d.rows) <= RenderMaxRows
             /\ d.cursor.x <= MaxCursor
             /\ \E r \in {Render([ui.text_area EXCEPT !.document = d], width, height)} :
                   ui' = [text_area |-> IF d.panicked THEN [ui.text_area EXCEPT !.document = d]
                                        ELSE r.text_area]
    /\ UNCHANGED <<disk, dirty, docVars, wrapVars, fileVars, mainVars>>

NextRender == UpdateRender

SpecRender == InitRender /\ [][NextRender]_vars

\* C16: for every document with at least one row and every cols >= 1 and
\* rows >= 1, after any edit or cursor motion TextArea.render(cols, rows)
\* returns a Window with exactly rows lines and a cursor with cursor.x < cols
\* and cursor.y < rows.
C16_RenderFillsWindow ==
    (~ui.text_area.document.panicked /\ Len(ui.text_area.document.rows) >= 1) =>
        \A cols \in 1..RenderMaxCols, rows \in 1..MaxHeight :
            LET r == Render(ui.text_area, cols, rows)
            IN /\ ~r.text_area.document.panicked
               /\ Len(r.window.lines) = rows
               /\ r.window.cursor.x < cols
               /\ r.window.cursor.y < rows

(***************************************************************************)
(* terminal::init: the channel of Events, its producers and the read       *)
(* closure.  In SpecTerm main is a record:                                 *)
(*   pipe        the bytes the signal handlers wrote and nobody read yet   *)
(*   dispatcher  the signal thread: "read" (blocked in libc::read),        *)
(*               "resize" / "resume" (about to send that event), "dead"    *)
(*               (it panicked)                                             *)
(*   stdin       the input thread, "alive": process_keypress never panics  *)
(*               and send fails only once the receiver is gone             *)
(*   channel     the events sent and not yet received                      *)
(*   read        the read closure: "try" (in the try_recv loop), "recv"    *)
(*               (blocked in rx.recv())                                    *)
(*   events      the vec of the read call under way                        *)
(*   batch       what the last read call returned                          *)
(* and three histories: arrived (every event sent, in send order),         *)
(* received (the batches returned, concatenated) and handled (per signal   *)
(* the dispatcher took from the pipe, the events it sent for it).          *)
(***************************************************************************)
MaxSignals == 2     \* signals delivered
MaxKeys == 2        \* keys read from stdin

SIGWINCH == "SIGWINCH"
SIGCONT == "SIGCONT"
Signals == {SIGWINCH, SIGCONT}
TermKeys == {Input("a"), Ev("Pause")}
WindowSize == <<80, 24>>
RecvError == ErrorEv("receiving on a closed channel")

\* the LIFO a sender never is
SendFirst(ch, e) == <<e>> \o ch

\* Sender::send
ChannelSend(ch, e) == Append(ch, e)

\* tx.send(e).unwrap(), and the event in the history
Sends(m, e) == [m EXCEPT !.channel = ChannelSend(@, e), !.arrived = Append(@, e)]

\* every Sender is dropped: tx at the end of init, the clones with their threads
Disconnected(m) == m.stdin = "dead" /\ m.dispatcher = "dead"

\* read returns events
Returns(m, events) ==
    [m EXCEPT !.read = "try", !.events = <<>>, !.batch = Some(events),
              !.received = @ \o events]

InitTerm ==
    /\ main = Sends([pipe |-> <<>>, dispatcher |-> "read", stdin |-> "alive",
                     channel |-> <<>>, read |-> "try", events |-> <<>>,
                     batch |-> NoneOpt, arrived |-> <<>>, received |-> <<>>,
                     handled |-> <<>>, raised |-> 0, typed |-> 0],
                    Resize(WindowSize[1], WindowSize[2]))
    /\ IdleDoc
    /\ IdleWrap
    /\ IdleUi
    /\ IdleFile

\* handle_resize / handle_cont: the handler writes the signal to the pipe
SignalRaised ==
    /\ main.raised < MaxSignals
    /\ \E s \in Signals :
          main' = [main EXCEPT !.pipe = Append(@, s), !.raised = @ + 1]
    /\ UNCHANGED <<docVars, wrapVars, uiVars, fileVars>>

\* the signal thread: libc::read of one byte, then get_window_size().unwrap().
\* buf is written through a pointer to an immutable binding, so a build may take
\* buf[0] for 0, SIGWINCH, whatever was read: both arms send the same events.
DispatcherRead ==
    /\ main.dispatcher = "read"
    /\ main.pipe # <<>>
    /\ \E ok \in BOOLEAN :
          main' = [main EXCEPT !.pipe = Tail(@),
                               !.dispatcher = IF ok THEN "resize" ELSE "dead",
                               !.handled = Append(@, [signal |-> Head(main.pipe), sent |-> <<>>])]
    /\ UNCHANGED <<docVars, wrapVars, uiVars, fileVars>>

\* signal_tx.send(Event::Resize(width, height)).unwrap(), in either arm
DispatcherResize ==
    /\ main.dispatcher = "resize"
    /\ LET e == Resize(WindowSize[1], WindowSize[2])
       IN main' = [Sends(main, e) EXCEPT !.dispatcher = "resume",
                                         !.handled[Len(main.handled)].sent = Append(@, e)]
    /\ UNCHANGED <<docVars, wrapVars, uiVars, fileVars>>

\* signal_tx.send(Event::Resume).unwrap(), in either arm
DispatcherResume ==
    /\ main.dispatcher = "resume"
    /\ LET e == Ev("Resume")
       IN main' = [Sends(main, e) EXCEPT !.dispatcher = "read",
                                         !.handled[Len(main.handled)].sent = Append(@, e)]
    /\ UNCHANGED <<docVars, wrapVars, uiVars, fileVars>>

\* the input thread: stdin_tx.send(process_keypress()).unwrap()
Keypress ==
    /\ main.stdin = "alive"
    /\ main.typed < MaxKeys
    /\ \E e \in TermKeys : main' = [Sends(main, e) EXCEPT !.typed = @ + 1]
    /\ UNCHANGED <<docVars, wrapVars, uiVars, fileVars>>

\* read: one turn of the try_recv loop, and the test that follows the break
ReadTryRecv ==
    /\ main.read = "try"
    /\ main' = IF main.channel # <<>>
               THEN [main EXCEPT !.channel = Tail(@), !.events = Append(@, Head(main.channel))]
               ELSE IF Len(main.events) = 0 THEN [main EXCEPT !.read = "recv"]
               ELSE Returns(main, main.events)
    /\ main' # main
    /\ UNCHANGED <<docVars, wrapVars, uiVars, fileVars>>

\* read: rx.recv() returns
ReadRecv ==
    /\ main.read = "recv"
    /\ main.channel # <<>> \/ Disconnected(main)
    /\ main' = IF main.channel # <<>>
               THEN Returns([main EXCEPT !.channel = Tail(@)], <<Head(main.channel)>>)
               ELSE Returns(main, <<RecvError>>)
    /\ UNCHANGED <<docVars, wrapVars, uiVars, fileVars>>

NextTerm ==
    \/ SignalRaised
    \/ DispatcherRead
    \/ DispatcherResize
    \/ DispatcherResume
    \/ Keypress
    \/ ReadTryRecv
    \/ ReadRecv

SpecTerm == InitTerm /\ [][NextTerm]_vars

Kinds(events) == [n \in 1..Len(events) |-> events[n].kind]
Count(events, kind) == Cardinality({n \in 1..Len(events) : events[n].kind = kind})

\* the dispatcher is through with the i-th signal it took from the pipe
Dispatched(i) == i < Len(main.handled) \/ main.dispatcher = "read"

\* C18: the signal dispatcher turns each SIGWINCH into exactly one Resize and
\* no Resume, and each SIGCONT into a Resize followed by a Resume; so no more
\* Resume events enter the channel than SIGCONT signals were taken from the pipe.
C18_SignalsToEvents ==
    /\ \A i \in 1..Len(main.handled) :
          Dispatched(i) =>
              Kinds(main.handled[i].sent) =
                  IF main.handled[i].signal = SIGWINCH THEN <<"Resize">>
                  ELSE <<"Resize", "Resume">>
    /\ Count(main.arrived, "Resume")
          <= Cardinality({i \in 1..Len(main.handled) : main.handled[i].signal = SIGCONT})

\* C19: the batches read returns, concatenated, are the events in the order
\* they entered the channel, none lost, duplicated or reordered: with the
\* events read holds and those still in the channel they make up the arrival
\* sequence; and read never returns an empty batch.
C19_ArrivalOrderKept ==
    /\ main.received \o main.events \o main.channel = main.arrived
    /\ IsSome(main.batch) => Len(Unwrap(main.batch)) > 0

\* read returned a batch of several events, of both producers
C19_Witness ==
    /\ IsSome(main.batch)
    /\ Len(Unwrap(main.batch)) >= 2
    /\ Count(main.received, "Input") >= 1
    /\ Count(main.received, "Resume") >= 1
    /\ Len(main.received) = Len(main.arrived)

\* the visual line of the cursor at width cols, counted from the first line
\* of the document
VisualLine(t, cols) ==
    RenderRows(t.document.rows, 0, cols, t.document.cursor, <<>>, [x |-> 0, y |-> 0]).cursor.y

\* C25: after every TextArea.render(cols, rows) with rows >= 1 the cursor's
\* visual line c satisfies window_offset <= c <= window_offset + rows - 1, and
\* the render changes window_offset only when c was outside the window given
\* by the previous window_offset.
C25_ScrollToReveal ==
    ~ui.text_area.document.panicked =>
        \A cols \in 1..RenderMaxCols, rows \in 1..MaxHeight :
            LET t == ui.text_area
                r == Render(t, cols, rows)
                c == VisualLine(t, cols)
            IN ~r.text_area.document.panicked =>
                  /\ r.text_area.window_offset <= c
                  /\ c <= r.text_area.window_offset + rows - 1
                  /\ r.window.cursor.y = c - r.text_area.window_offset
                  /\ r.text_area.window_offset # t.window_offset =>
                        (c < t.window_offset \/ c > t.window_offset + rows - 1)

\* a render of the TextArea as it is scrolls down, and another one scrolls up
C25_Witness ==
    /\ ~ui.text_area.document.panicked
    /\ \E cols \in 1..RenderMaxCols, rows \in 1..MaxHeight :
          LET r == Render(ui.text_area, cols, rows)
          IN /\ ~r.text_area.document.panicked
             /\ r.text_area.window_offset > ui.text_area.window_offset
    /\ \E cols \in 1..RenderMaxCols, rows \in 1..MaxHeight :
          LET r == Render(ui.text_area, cols, rows)
          IN /\ ~r.text_area.document.panicked
             /\ r.text_area.window_offset < ui.text_area.window_offset

(***************************************************************************)
(* The key decoder of terminal.rs.  stdin is a sequence of bytes, each     *)
(* written as the character it is; a parser returns the Event and the      *)
(* bytes it left unread.  read_char on an empty stdin is an Err.  In       *)
(* SpecKeys file is what was typed and main is the record of stdin (the    *)
(* bytes not read yet) and events (the Events decoded so far).             *)
(***************************************************************************)
MaxKeyBytes == 4    \* bytes typed

ESC == "ESC"
KeyBytes == {ESC, "[", "O", "2", "3", "~", "a", "H"}

Decoded(event, stdin) == [event |-> event, stdin |-> stdin]

\* parse_tilda
ParseTilda(stdin, event) ==
    IF stdin # <<>> /\ Head(stdin) = "~" THEN Decoded(event, Tail(stdin))
    ELSE Decoded(Ev("Escape"), IF stdin = <<>> THEN stdin ELSE Tail(stdin))

\* parse_bracket, for the bytes of KeyBytes
ParseBracket(stdin) ==
    IF stdin = <<>> THEN Decoded(Ev("Escape"), stdin)
    ELSE CASE Head(stdin) = "3" -> ParseTilda(Tail(stdin), Ev("Delete"))
           [] Head(stdin) = "H" -> Decoded(Ev("Home"), Tail(stdin))
           [] OTHER -> Decoded(Ev("Escape"), Tail(stdin))

\* parse_o, for the bytes of KeyBytes
ParseO(stdin) ==
    IF stdin = <<>> THEN Decoded(Ev("Escape"), stdin)
    ELSE CASE Head(stdin) = "H" -> Decoded(Ev("Home"), Tail(stdin))
           [] OTHER -> Decoded(Ev("Escape"), Tail(stdin))

\* parse_escape
ParseEscape(stdin) ==
    IF stdin = <<>> THEN Decoded(Ev("Escape"), stdin)
    ELSE CASE Head(stdin) = "[" -> ParseBracket(Tail(stdin))
           [] Head(stdin) = "O" -> ParseO(Tail(stdin))
           [] OTHER -> Decoded(Ev("Escape"), Tail(stdin))

\* process_keypress with a byte to read: every byte of KeyBytes but ESC is
\* printable
ProcessKeypress(stdin) ==
    IF Head(stdin) = ESC THEN ParseEscape(Tail(stdin))
    ELSE Decoded(Input(Head(stdin)), Tail(stdin))

InitKeys ==
    /\ file \in StringsUpTo(KeyBytes, MaxKeyBytes)
    /\ main = [stdin |-> file, events |-> <<>>]
    /\ saved = NoneOpt
    /\ IdleDoc
    /\ IdleWrap
    /\ IdleUi

\* the input thread: one process_keypress, once a byte has arrived
DoKeypress ==
    /\ main.stdin # <<>>
    /\ \E r \in {ProcessKeypress(main.stdin)} :
          main' = [stdin |-> r.stdin, events |-> Append(main.events, r.event)]
    /\ UNCHANGED <<docVars, wrapVars, uiVars, fileVars>>

NextKeys == DoKeypress

SpecKeys == InitKeys /\ [][NextKeys]_vars

\* sequences that start with ESC and are in no row of the key table
UnknownSequences ==
    {<<ESC, "[", "2", "~">>, <<ESC, "[", "3", "a">>, <<ESC, "[", "3", "2">>,
     <<ESC, "[", "a">>, <<ESC, "O", "a">>, <<ESC, "a">>}

\* C27: a byte sequence that starts with ESC and is not in the key table (for
\* example ESC [ 2 ~, or ESC [ 3 followed by a byte other than ~) decodes to
\* exactly one Escape event, and none of its bytes is afterwards delivered as
\* an Input event.
C27_UnknownSequenceIsOneEscape ==
    (file \in UnknownSequences /\ main.stdin = <<>>) => main.events = <<Ev("Escape")>>

(***************************************************************************)
(* Specification SpecResume: the main loop of SpecMain fed by the channel, *)
(* with the signal thread and the input thread, from the point of          *)
(* terminal::init where both threads have been spawned (main.pc = "init")  *)
(* and across Ctrl-Z and the SIGCONT that follows.  main is the record of  *)
(* SpecMain and ui holds                                                   *)
(*   pipe        the signal bytes written by the handlers, not yet read    *)
(*   channel     the events sent and not yet received                      *)
(*   dispatcher  the signal thread: "read" or "dead" (panicked)            *)
(*   stopped     SIGTSTP has stopped the process: no thread runs           *)
(*   window      the size of the terminal                                  *)
(*   reported    the size get_window_size returned last in the signal      *)
(*               thread                                                    *)
(*   frame       the size at which the frame written last was rendered     *)
(*   failed      an I/O call of the signal thread or of the loop failed    *)
(*   conts, keys the SIGCONTs delivered and the keys typed so far          *)
(*   winches     the SIGWINCHs delivered so far                            *)
(* The keys typed are Ctrl-F and Ctrl-Z; the terminal is resized to sizes  *)
(* draw_rows can render.                                                   *)
(***************************************************************************)
MaxConts == 2           \* SIGCONTs delivered
MaxResumeKeys == 2      \* keys typed
MaxWinches == 1         \* SIGWINCHs delivered

ResumeSizes == {<<80, 24>>, <<40, 12>>}
ResumeKeys == {Control("f"), Ev("Pause")}

InitResume ==
    /\ \E t \in InitialTermios : main = [EditorNew(t) EXCEPT !.pc = "init"]
    /\ \E size \in ResumeSizes :
          ui = [pipe |-> <<>>, channel |-> <<>>,
                dispatcher |-> "read", stopped |-> FALSE, window |-> size,
                reported |-> NoneOpt, frame |-> NoneOpt, failed |-> FALSE,
                conts |-> 0, keys |-> 0, winches |-> 0]
    /\ disk = None
    /\ dirty = FALSE
    /\ IdleDoc
    /\ IdleWrap
    /\ IdleFile

\* the end of terminal::init, after the threads were spawned and the handlers
\* installed: get_window_size().unwrap(), tx.send(Event::Resize).unwrap(); then
\* main calls Editor::new and run
ResumeInit ==
    /\ main.pc = "init"
    /\ \E ok \in BOOLEAN, exit_ok \in BOOLEAN :
          IF ok
          THEN /\ ui' = [ui EXCEPT !.channel =
                                      ChannelSend(@, Resize(ui.window[1], ui.window[2]))]
               /\ main' = [main EXCEPT !.pc = "draw"]
          ELSE /\ ui' = [ui EXCEPT !.failed = TRUE]
               /\ main' = PanicHook(main, exit_ok)
    /\ UNCHANGED <<docVars, wrapVars, disk, dirty, fileVars>>

\* the process is continued (the terminal may have another size by now) and
\* handle_cont writes the signal to the pipe
ResumeCont ==
    /\ ui.stopped
    /\ ui.conts < MaxConts
    /\ \E size \in ResumeSizes :
          ui' = [ui EXCEPT !.stopped = FALSE, !.window = size,
                           !.pipe = Append(@, SIGCONT), !.conts = @ + 1]
    /\ UNCHANGED <<main, docVars, wrapVars, disk, dirty, fileVars>>

\* the terminal is resized while the process runs and handle_resize writes
\* the signal to the pipe
ResumeWinch ==
    /\ ~ui.stopped
    /\ main.pc # "init"
    /\ ui.winches < MaxWinches
    /\ \E size \in ResumeSizes :
          ui' = [ui EXCEPT !.window = size, !.pipe = Append(@, SIGWINCH),
                           !.winches = @ + 1]
    /\ UNCHANGED <<main, docVars, wrapVars, disk, dirty, fileVars>>

\* the signal thread, one turn of its loop: libc::read of one byte,
\* get_window_size().unwrap(), send Resize, send Resume.  The unwrap of an Err
\* panics the thread, and the panic hook calls terminal::exit().
ResumeDispatch ==
    /\ ~ui.stopped
    /\ ui.dispatcher = "read"
    /\ ui.pipe # <<>>
    /\ \E ok \in BOOLEAN, exit_ok \in BOOLEAN :
          IF ok
          THEN /\ ui' = [ui EXCEPT
                            !.pipe = Tail(@),
                            !.reported = Some(ui.window),
                            !.channel = ChannelSend(
                                ChannelSend(@, Resize(ui.window[1], ui.window[2])),
                                Ev("Resume"))]
               /\ main' = main
          ELSE /\ ui' = [ui EXCEPT !.pipe = Tail(@), !.dispatcher = "dead",
                                   !.failed = TRUE]
               /\ main' = TerminalExit(main, exit_ok)
    /\ UNCHANGED <<docVars, wrapVars, disk, dirty, fileVars>>

\* the input thread: stdin_tx.send(process_keypress()).unwrap()
ResumeKeypress ==
    /\ ~ui.stopped
    /\ ui.keys < MaxResumeKeys
    /\ \E e \in ResumeKeys :
          ui' = [ui EXCEPT !.channel = ChannelSend(@, e), !.keys = @ + 1]
    /\ UNCHANGED <<main, docVars, wrapVars, disk, dirty, fileVars>>

\* editor.draw(), then write(&editor.buffer)? unless paused
ResumeDraw ==
    /\ ~ui.stopped
    /\ main.pc = "draw"
    /\ \E overflow_checks \in BOOLEAN, ok \in BOOLEAN :
          IF DrawUnderflows(main)
          THEN /\ main' = IF overflow_checks THEN PanicHook(main, ok)
                          ELSE [main EXCEPT !.left = "abort", !.pc = "done"]
               /\ ui' = ui
          ELSE IF ~WritesFrame(main)
          THEN /\ main' = [main EXCEPT !.pc = "read"]
               /\ ui' = ui
          ELSE /\ main' = IF ok THEN [main EXCEPT !.pc = "read", !.wrote = TRUE]
                          ELSE ReturnErr(main)
               /\ ui' = IF ok THEN [ui EXCEPT !.frame = Some(<<main.width, main.height>>)]
                        ELSE [ui EXCEPT !.failed = TRUE]
    /\ UNCHANGED <<docVars, wrapVars, disk, dirty, fileVars>>

\* match read(): the arms for Pause and Resume, and e => editor.update(e).
\* After terminal::pause() has raised SIGTSTP the process is stopped.
ResumeRecv ==
    /\ ~ui.stopped
    /\ main.pc = "read"
    /\ ui.channel # <<>>
    /\ \E ok \in BOOLEAN, e \in {Head(ui.channel)} :
          LET m == [main EXCEPT !.last = Some(e), !.wrote = FALSE, !.other = FALSE]
              received == [ui EXCEPT !.channel = Tail(@)]
          IN CASE e.kind = "Pause" ->
                    /\ main' = IF ok
                               THEN [ExitRawMode(m) EXCEPT !.paused = TRUE,
                                         !.since_pause = TRUE, !.alternate = FALSE,
                                         !.pc = "draw"]
                               ELSE ReturnErr([ExitRawMode(m) EXCEPT !.paused = TRUE,
                                                   !.since_pause = TRUE])
                    /\ ui' = IF ok THEN [received EXCEPT !.stopped = TRUE]
                             ELSE [received EXCEPT !.failed = TRUE]
                    /\ document' = document
               [] e.kind = "Resume" ->
                    /\ main' = IF ok
                               THEN [EnterRawMode(m) EXCEPT !.paused = FALSE,
                                         !.since_pause = FALSE, !.alternate = TRUE,
                                         !.pc = "draw"]
                               ELSE ReturnErr([m EXCEPT !.paused = FALSE,
                                                        !.since_pause = FALSE])
                    /\ ui' = IF ok THEN received ELSE [received EXCEPT !.failed = TRUE]
                    /\ document' = document
               [] OTHER ->
                    \E r \in {ProcessEvent(main, document, e)} :
                        /\ main' = [r.m EXCEPT !.pc = "draw", !.other = TRUE,
                                               !.last = Some(e)]
                        /\ ui' = received
                        /\ document' = r.d
    /\ UNCHANGED <<wrapVars, disk, dirty, fileVars>>

NextResume ==
    \/ ResumeInit
    \/ ResumeCont
    \/ ResumeWinch
    \/ ResumeDispatch
    \/ ResumeKeypress
    \/ ResumeDraw
    \/ ResumeRecv

\* the kernel schedules the signal thread and the main thread whenever they
\* can run; nothing obliges a key to be typed or the process to be continued
SpecResume ==
    /\ InitResume
    /\ [][NextResume]_vars
    /\ WF_vars(ResumeDispatch)
    /\ WF_vars(ResumeInit \/ ResumeDraw \/ ResumeRecv)

\* the loop has processed Resume and written a frame at the size reported last
ResumedFrame ==
    /\ IsSome(main.last) /\ Unwrap(main.last).kind = "Resume"
    /\ ~main.paused /\ main.alternate /\ main.raw
    /\ main.wrote
    /\ IsSome(ui.reported) /\ ui.frame = ui.reported

ErrorPrefixLen == 7     \* "ERROR: ".len()
TabCountLen == 6        \* " ({}/{})".len() with single digits

RenderFailed == [failed |-> TRUE, lines |-> 0]

\* TextArea::render: no lines at width 0; at height 0 either
\* window_offset + height - 1 underflows or visible_lines[0] is out of range
TextAreaRender(t, width, height) ==
    IF width = 0 THEN [failed |-> FALSE, lines |-> 0]
    ELSE IF height = 0 THEN RenderFailed
    ELSE LET r == Render(t, width, height)
         IN [failed |-> r.text_area.document.panicked, lines |-> Len(r.window.lines)]

\* Tabs::render: the child at height - 1, the header centred with
\* (width - text.len()) / 2
TabsRender(s, width, height) ==
    IF height = 0 THEN RenderFailed
    ELSE LET child == TextAreaRender(CurrentChild(s), width, height - 1)
             filename == DocumentOf(s).filename
             text_len == (IF IsSome(filename) THEN StrByteLen(Unwrap(filename))
                          ELSE HeaderNameLen) + TabCountLen
         IN IF child.failed \/ width < text_len THEN RenderFailed
            ELSE [failed |-> FALSE, lines |-> child.lines + 1]

\* Find::render: the child as it is with no search, else the child at
\* height - 1 and the prompt line
FindRender(s, width, height) ==
    IF ~IsSome(s.search) THEN TabsRender(s, width, height)
    ELSE IF height = 0 THEN RenderFailed
    ELSE LET child == TabsRender(s, width, height - 1)
         IN IF child.failed THEN RenderFailed
            ELSE [failed |-> FALSE, lines |-> child.lines + 1]

\* FileChooser::render: likewise for the selection
FileChooserRender(s, width, height) ==
    IF ~IsSome(s.selection) THEN FindRender(s, width, height)
    ELSE IF height = 0 THEN RenderFailed
    ELSE LET child == FindRender(s, width, height - 1)
         IN IF child.failed THEN RenderFailed
            ELSE [failed |-> FALSE, lines |-> child.lines + 1]

\* Status::render: the child at height - 1, the footer padded with
\* width - status.len() - position.len() - 2 spaces
StatusRender(s, width, height) ==
    IF height = 0 THEN RenderFailed
    ELSE LET child == FileChooserRender(s, width, height - 1)
             status_len == IF IsSome(s.error) THEN ErrorPrefixLen + Len(Unwrap(s.error))
                           ELSE 0
         IN IF child.failed \/ width < status_len + PositionLen + 2 THEN RenderFailed
            ELSE [failed |-> FALSE, lines |-> child.lines + 1]

StackWidths == {0, 20, 80}
StackHeights == {0, 1, 3, 5, 24}

\* C31: for every terminal size a Resize can deliver and every reachable state
\* of the stack, rendering Status(FileChooser(Find(Tabs(TextArea)))) completes
\* without an unsigned underflow or an index out of range and returns exactly
\* height lines.
C31_StackRenderFillsHeight ==
    ~ui.panicked =>
        \A width \in StackWidths, height \in StackHeights :
            LET r == StatusRender(ui, width, height)
            IN ~r.failed /\ r.lines = height

\* C32: the first event the main loop receives is the initial Resize carrying
\* the real window size: no key event from the input thread is dispatched
\* while the editor's width and height are still their initial 0.
C32_ResizeComesFirst ==
    (main.width = 0 /\ main.height = 0) => main.last = NoneOpt

\* Document::cursor_display_x: the widths of the cells before the cursor
RECURSIVE DisplayLen(_, _)
DisplayLen(cells, n) == IF n = 0 THEN 0 ELSE DisplayLen(cells, n - 1) + cells[n].width

CursorDisplayX(d) == DisplayLen(d.rows[d.cursor.y + 1], d.cursor.x)

\* the index, from 0, of the line of lines that shows cell x of the row (cells
\* counted from 0): the last line when x is the row's length
RECURSIVE LineOfCell(_, _, _)
LineOfCell(lines, x, i) ==
    IF i = Len(lines) \/ x < LineCells(lines[i]) THEN i - 1
    ELSE LineOfCell(lines, x - LineCells(lines[i]), i + 1)

\* C34: for every Row (cells of width 1, 2 or 4), every cols >= 1 and every
\* cursor index x <= len, cursor_display_x() div cols is the index, within the
\* row's soft-wrapped lines, of the line that contains cell x (the last line
\* emitted when x = len).
C34_CursorOnItsLine ==
    \A x \in 0..Len(row) :
        LET d == [Blank EXCEPT !.rows = <<row>>, !.cursor = [x |-> x, y |-> 0]]
        IN CursorDisplayX(d) \div max_width
               = LineOfCell(RowSplit(row, max_width, ""), x, 1)

\* C33: whenever the main loop is running and not paused the terminal is in
\* raw mode on the alternate screen: nothing that happens on the input thread
\* or the signal thread, a panic there included, returns the terminal to cooked
\* mode while the loop keeps editing.
C33_RawWhileEditing ==
    (main.pc \in {"draw", "read"} /\ ~main.paused) => (main.raw /\ main.alternate)

====
